---- MODULE Spec2Model ----
(***************************************************************************)
(* codesummariser: the incremental, hash-keyed summary store.              *)
(*                                                                         *)
(* The model follows one invocation of main (check_cost, then one          *)
(* get_summaries call per code extension) step by step, with the summary   *)
(* store as a CSV file (a header line and data rows) and the source files  *)
(* as contents that the user may edit between runs.  The LLM is an         *)
(* external service: a summarisation call returns some text or raises.     *)
(*                                                                         *)
(* Texts are sequences of characters over a small alphabet in which "SP",  *)
(* "CR" and "LF" stand for the space, carriage return and line feed.       *)
(***************************************************************************)
EXTENDS Integers, Sequences, FiniteSets, TLC

\* ---------------------------------------------------------------- bounds
MaxRuns == 2

\* The source files under the search directories, both with the suffix .py
\* (no file has the suffix .sas), and the versions a file's bytes go through.
Paths == {1, 2}
Contents == {1, 2}

\* ------------------------------------------------------- text operations
IsSpace(c) == c \in {"SP", "CR", "LF"}

RECURSIVE LStrip(_)
LStrip(s) ==
    IF s = <<>> THEN <<>>
    ELSE IF IsSpace(Head(s)) THEN LStrip(Tail(s)) ELSE s

RECURSIVE RStrip(_)
RStrip(s) ==
    IF s = <<>> THEN <<>>
    ELSE IF IsSpace(s[Len(s)]) THEN RStrip(SubSeq(s, 1, Len(s) - 1)) ELSE s

\* str.strip()
Strip(s) == RStrip(LStrip(s))

UpperChar(c) ==
    CASE c = "y" -> "Y"
      [] c = "n" -> "N"
      [] c = "e" -> "E"
      [] c = "s" -> "S"
      [] OTHER -> c

\* str.upper()
Upper(s) == [i \in 1..Len(s) |-> UpperChar(s[i])]

\* Text-mode reading with the default newline=None: "\r\n" and a lone "\r"
\* both arrive as "\n", inside quoted CSV fields too.
RECURSIVE TranslateNewlines(_)
TranslateNewlines(s) ==
    IF s = <<>> THEN <<>>
    ELSE IF Head(s) = "CR"
         THEN IF Len(s) > 1 /\ s[2] = "LF"
              THEN <<"LF">> \o TranslateNewlines(SubSeq(s, 3, Len(s)))
              ELSE <<"LF">> \o TranslateNewlines(Tail(s))
         ELSE <<Head(s)>> \o TranslateNewlines(Tail(s))

\* ------------------------------------------------------------ FileSummary
\* hashlib.sha256(...).hexdigest(): a non-empty digest, one per content.
Sha256(c) == <<"sha256", c>>

EmptyHash == <<>>

\* fields(FileSummary)
field_names == <<"path", "summary", "contents_hash">>

\* What a run may say to the cost prompt.
Answers == { <<"Y">>, <<"y">>, <<"N">>, <<>>, <<"y", "e", "s">> }

\* What the summarisation chain may return for a file.
LLMOutputs == { <<"a">>, <<"SP", "b", "CR", "LF", "c", "LF">> }

\* The code extensions of the model's files: --code-exts picks among them.
CodeExts == { <<".py">>, <<".sas">>, <<".py", ".sas">>, <<".sas", ".py">> }

\* Path.suffix
Suffix(p) == IF p \in {1, 2} THEN ".py" ELSE ".sas"

VARIABLES
    files,              \* path -> content of the source file
    store,              \* the summary store (CSV file)
    pc,                 \* position of the run
    err,                \* the exception that ended the run, or "none"
    answer,             \* the user's answer to the cost prompt
    always_check,       \* --always-check-existing-summaries
    pending,            \* extensions main has still to pass to get_summaries
    code_ext,           \* get_summaries: code_ext
    code_paths,         \* get_summaries: code_paths
    idx,                \* get_summaries: position of the loop in code_paths
    existing_summaries, \* get_summaries: existing_summaries
    code_file,          \* get_summaries: code_file
    events,             \* what the run has done to the store and the LLM
    entryStore,         \* the store as it was when get_summaries was entered
    generated,          \* path -> the summary most recently generated for it
    prevFail,           \* the last get_summaries call that died in its loop
    runs                \* number of runs started

vars == <<files, store, pc, err, answer, always_check, pending, code_ext,
          code_paths, idx, existing_summaries, code_file, events, entryStore,
          generated, prevFail, runs>>

\* ------------------------------------------------------------ store files
NoFile == [exists |-> FALSE, header |-> <<>>, rows |-> <<>>]
EmptyFile == [exists |-> TRUE, header |-> <<>>, rows |-> <<>>]
HeaderOnly == [exists |-> TRUE, header |-> field_names, rows |-> <<>>]
OldShape == [exists |-> TRUE, header |-> <<"path", "summary">>, rows |-> <<>>]
OneRow == [exists |-> TRUE, header |-> field_names,
           rows |-> << <<2, <<"a">>, Sha256(1)>> >>]

\* FileSummary.hash_file digesting the name of the file, not its bytes
hash_file_of_name(path) == Sha256(path)

\* FileSummary.hash_file
hash_file(path) == Sha256(files[path])

\* FileSummary(path, summary, contents_hash) with __post_init__
FileSummary(path, summary, contents_hash) ==
    [path |-> path,
     summary |-> summary,
     contents_hash |-> IF contents_hash = EmptyHash THEN hash_file(path)
                       ELSE contents_hash]

NoSummary == [path |-> 0, summary |-> <<>>, contents_hash |-> EmptyHash]

\* FileSummary.__iter__: the CSV row of a FileSummary
Row(fs) == <<fs.path, fs.summary, fs.contents_hash>>

RowPaths(rows) == {rows[i][1] : i \in DOMAIN rows}

LastRow(rows, p) ==
    CHOOSE i \in DOMAIN rows :
        rows[i][1] = p /\ \A j \in DOMAIN rows : j > i => rows[j][1] # p

\* read_code_summary_csv: the dictionary it returns (later rows overwrite
\* earlier rows of the same path).  Raises StopIteration on a file with no
\* header line: see CanRead.
read_code_summary_csv(file) ==
    [p \in RowPaths(file.rows) |->
        LET r == file.rows[LastRow(file.rows, p)]
        IN  FileSummary(r[1], TranslateNewlines(r[2]), r[3])]

CanRead(file) == file.exists /\ file.header # <<>>

\* write_summary_csv(summary, file, mode, header)
write_summary_csv(summary, file, mode, header) ==
    LET base == IF mode = "w" THEN EmptyFile
                ELSE [file EXCEPT !.exists = TRUE]
    IN  [exists |-> TRUE,
         header |-> IF header THEN field_names ELSE base.header,
         rows |-> base.rows \o [i \in 1..Len(summary) |-> Row(summary[i])]]

\* safe_write_code_summary_csv appending before it checks the columns
safe_write_code_summary_csv_append_first(summary, file) ==
    LET f1 == IF ~file.exists
              THEN write_summary_csv(<<summary>>, file, "w", TRUE)
              ELSE file
        f2 == write_summary_csv(<<summary>>, f1, "a", FALSE)
    IN  IF f1.header = <<>>
        THEN [store |-> f1, err |-> "StopIteration"]
        ELSE IF field_names # f1.header
        THEN [store |-> f2, err |-> "ValueError"]
        ELSE [store |-> f2, err |-> "none"]

\* safe_write_code_summary_csv(summary, file): the store it leaves and the
\* exception it raises
safe_write_code_summary_csv(summary, file) ==
    LET f1 == IF ~file.exists
              THEN write_summary_csv(<<summary>>, file, "w", TRUE)
              ELSE file
    IN  IF f1.header = <<>>
        THEN [store |-> f1, err |-> "StopIteration"]
        ELSE IF field_names # f1.header
        THEN [store |-> f1, err |-> "ValueError"]
        ELSE [store |-> write_summary_csv(<<summary>>, f1, "a", FALSE),
              err |-> "none"]

\* ----------------------------------------------------------------- events
Ev(t, p) == [t |-> t, p |-> p]

NoDict == [isNone |-> TRUE, dict |-> <<>>]
NoPrevFail == [valid |-> FALSE, paths |-> <<>>, k |-> 0, done |-> {}]

\* The events of the get_summaries call in progress (or the last one).
LastCall == CHOOSE i \in 0..Len(events) :
                /\ i > 0 => events[i].t = "call"
                /\ \A j \in (i + 1)..Len(events) : events[j].t # "call"
CallEvents == SubSeq(events, LastCall + 1, Len(events))
EventPaths(evs, t) == {evs[i].p : i \in {j \in DOMAIN evs : evs[j].t = t}}

\* The failure of the call in progress at position idx of code_paths.
Failure == [valid |-> TRUE, paths |-> code_paths, k |-> idx,
            done |-> EventPaths(CallEvents, "write")]

Idle == pc = "idle"

\* main, lines 96-109: the files found under the search directories, by
\* extension
PathsWithExt(ext) ==
    LET S == {p \in Paths : Suffix(p) = ext}
        RECURSIVE Asc(_)
        Asc(T) == IF T = {} THEN <<>>
                  ELSE LET m == CHOOSE x \in T : \A y \in T : x <= y
                       IN  <<m>> \o Asc(T \ {m})
    IN  Asc(S)

Init ==
    /\ files \in [Paths -> Contents]
    /\ store \in {NoFile, EmptyFile, HeaderOnly, OldShape, OneRow}
    /\ pc = "idle"
    /\ err = "none"
    /\ answer = <<"?">>
    /\ always_check = FALSE
    /\ pending = <<>>
    /\ code_ext = ""
    /\ code_paths = <<>>
    /\ idx = 0
    /\ existing_summaries = NoDict
    /\ code_file = NoSummary
    /\ events = <<>>
    /\ entryStore = store
    /\ generated = [p \in Paths |-> IF store = OneRow /\ p = 2 THEN <<"a">> ELSE <<>>]
    /\ prevFail = NoPrevFail
    /\ runs = 0

\* main, lines 22-112: a new run with its arguments
MainStart(exts, flag) ==
    /\ Idle
    /\ runs < MaxRuns
    /\ runs' = runs + 1
    /\ pc' = "prompt"
    /\ err' = "none"
    /\ answer' = <<"?">>
    /\ always_check' = flag
    /\ pending' = exts
    /\ code_ext' = ""
    /\ code_paths' = <<>>
    /\ idx' = 0
    /\ existing_summaries' = NoDict
    /\ code_file' = NoSummary
    /\ events' = <<>>
    /\ entryStore' = store
    /\ UNCHANGED <<files, store, generated, prevFail>>

\* main, lines 134-138: the process ends, normally or with the exception,
\* and nothing of the run is left but the files
Exit ==
    /\ pc \in {"done", "error"}
    /\ pc' = "idle"
    /\ err' = "none"
    /\ answer' = <<"?">>
    /\ always_check' = FALSE
    /\ pending' = <<>>
    /\ code_ext' = ""
    /\ code_paths' = <<>>
    /\ idx' = 0
    /\ existing_summaries' = NoDict
    /\ code_file' = NoSummary
    /\ events' = <<>>
    /\ entryStore' = store
    /\ UNCHANGED <<files, store, generated, prevFail, runs>>

\* check_cost, line 113: a default of "yes" for every answer but N
cost_declined_unless_no(yn) == Upper(yn) = <<"N">>

\* check_cost, line 113
cost_declined(yn) == Upper(yn) # <<"Y">>

\* check_cost: the prompt and the test of the answer
check_cost(yn) ==
    /\ pc = "prompt"
    /\ answer' = yn
    /\ IF cost_declined(yn)
       THEN pc' = "error" /\ err' = "SystemExit"
       ELSE pc' = "main" /\ err' = err
    /\ UNCHANGED <<files, store, always_check, pending, code_ext, code_paths,
                   idx, existing_summaries, code_file, events, entryStore,
                   generated, prevFail, runs>>

\* main, lines 119-134: the loop over the extensions
MainLoop ==
    /\ pc = "main"
    /\ IF pending = <<>>
       THEN /\ pc' = "done"
            /\ UNCHANGED <<pending, code_ext, code_paths>>
       ELSE /\ pc' = "enter"
            /\ code_ext' = Head(pending)
            /\ code_paths' = PathsWithExt(Head(pending))
            /\ pending' = Tail(pending)
    /\ UNCHANGED <<files, store, err, answer, always_check, idx,
                   existing_summaries, code_file, events, entryStore,
                   generated, prevFail, runs>>

\* get_summaries, lines 178-183, with the flag ignored: never an error
missing_store_raises_flag_ignored == FALSE

\* get_summaries, lines 178-183: a missing store is an error under the flag
missing_store_raises == always_check

\* get_summaries, lines 151-187: the checks and the load of the store
get_summaries_enter ==
    /\ pc = "enter"
    /\ entryStore' = store
    /\ code_file' = NoSummary
    /\ IF \E i \in DOMAIN code_paths : Suffix(code_paths[i]) # code_ext
       THEN /\ pc' = "error" /\ err' = "ValueError"
            /\ events' = events \o <<Ev("call", 0)>>
            /\ UNCHANGED <<existing_summaries, idx>>
       ELSE IF ~store.exists
       THEN IF missing_store_raises
            THEN /\ pc' = "error" /\ err' = "FileNotFoundError"
                 /\ events' = events \o <<Ev("call", 0)>>
                 /\ UNCHANGED <<existing_summaries, idx>>
            ELSE /\ pc' = "loop" /\ err' = err
                 /\ existing_summaries' = NoDict
                 /\ idx' = 1
                 /\ events' = events \o <<Ev("call", 0)>>
       ELSE IF ~CanRead(store)
            THEN /\ pc' = "error" /\ err' = "StopIteration"
                 /\ events' = events \o <<Ev("call", 0), Ev("load", 0)>>
                 /\ UNCHANGED <<existing_summaries, idx>>
            ELSE /\ pc' = "loop" /\ err' = err
                 /\ existing_summaries' =
                        [isNone |-> FALSE, dict |-> read_code_summary_csv(store)]
                 /\ idx' = 1
                 /\ events' = events \o <<Ev("call", 0), Ev("load", 0)>>
    /\ UNCHANGED <<files, store, answer, always_check, pending, code_ext,
                   code_paths, generated, prevFail, runs>>

\* get_summaries, lines 199-203, with the comparison of the hashes inverted
already_summarised_hash_differs(path, new_file) ==
    /\ ~existing_summaries.isNone
    /\ existing_summaries.dict # <<>>
    /\ path \in DOMAIN existing_summaries.dict
    /\ existing_summaries.dict[path].contents_hash # new_file.contents_hash

\* get_summaries, lines 199-203: is the stored summary of path still valid?
already_summarised(path, new_file) ==
    /\ ~existing_summaries.isNone
    /\ existing_summaries.dict # <<>>
    /\ path \in DOMAIN existing_summaries.dict
    /\ existing_summaries.dict[path].contents_hash = new_file.contents_hash

\* get_summaries, lines 190-203: the next file, skipped when unchanged
get_summaries_loop ==
    /\ pc = "loop"
    /\ IF idx > Len(code_paths)
       THEN /\ pc' = "returned"
            /\ UNCHANGED <<code_file, idx, events>>
       ELSE LET path == code_paths[idx]
                new_file == FileSummary(path, <<>>, EmptyHash)
            IN  /\ code_file' = new_file
                /\ IF already_summarised(path, new_file)
                   THEN /\ pc' = "loop"
                        /\ idx' = idx + 1
                        /\ events' = events \o <<Ev("skip", path)>>
                   ELSE /\ pc' = "llm"
                        /\ UNCHANGED <<idx, events>>
    /\ UNCHANGED <<files, store, err, answer, always_check, pending, code_ext,
                   code_paths, existing_summaries, entryStore, generated,
                   prevFail, runs>>

\* get_summaries, lines 205-208: the summarisation chain returns a text
summarise(out) ==
    /\ pc = "llm"
    /\ code_file' = [code_file EXCEPT !.summary = Strip(out)]
    /\ generated' = [generated EXCEPT ![code_file.path] = Strip(out)]
    /\ events' = events \o <<Ev("llm", code_file.path)>>
    /\ pc' = "write"
    /\ UNCHANGED <<files, store, err, answer, always_check, pending, code_ext,
                   code_paths, idx, existing_summaries, entryStore, prevFail,
                   runs>>

\* get_summaries, line 207: the summarisation chain raises
summarise_fails ==
    /\ pc = "llm"
    /\ events' = events \o <<Ev("llm", code_file.path)>>
    /\ pc' = "error"
    /\ err' = "LLMError"
    /\ prevFail' = Failure
    /\ UNCHANGED <<files, store, answer, always_check, pending, code_ext,
                   code_paths, idx, existing_summaries, code_file, entryStore,
                   generated, runs>>

\* get_summaries, lines 209-210, reloading existing_summaries after the write
write_summary_then_reload ==
    /\ pc = "write"
    /\ LET res == safe_write_code_summary_csv(code_file, store)
       IN  /\ store' = res.store
           /\ IF res.err = "none"
              THEN /\ pc' = "loop"
                   /\ idx' = idx + 1
                   /\ events' = events \o <<Ev("write", code_file.path),
                                             Ev("load", 0)>>
                   /\ existing_summaries' =
                          [isNone |-> FALSE,
                           dict |-> read_code_summary_csv(res.store)]
                   /\ UNCHANGED <<err, prevFail>>
              ELSE /\ pc' = "error"
                   /\ err' = res.err
                   /\ prevFail' = Failure
                   /\ UNCHANGED <<idx, events, existing_summaries>>
    /\ UNCHANGED <<files, answer, always_check, pending, code_ext, code_paths,
                   code_file, entryStore, generated, runs>>

\* get_summaries, lines 209-210: the row of the file goes to the store
write_summary ==
    /\ pc = "write"
    /\ LET res == safe_write_code_summary_csv(code_file, store)
       IN  /\ store' = res.store
           /\ IF res.err = "none"
              THEN /\ pc' = "loop"
                   /\ idx' = idx + 1
                   /\ events' = events \o <<Ev("write", code_file.path)>>
                   /\ UNCHANGED <<err, prevFail>>
              ELSE /\ pc' = "error"
                   /\ err' = res.err
                   /\ prevFail' = Failure
                   /\ UNCHANGED <<idx, events>>
    /\ UNCHANGED <<files, answer, always_check, pending, code_ext, code_paths,
                   existing_summaries, code_file, entryStore, generated, runs>>

\* get_summaries returns to the loop of main
get_summaries_return ==
    /\ pc = "returned"
    /\ pc' = "main"
    /\ prevFail' = IF prevFail.valid /\ prevFail.paths = code_paths
                   THEN NoPrevFail ELSE prevFail
    /\ UNCHANGED <<files, store, err, answer, always_check, pending, code_ext,
                   code_paths, idx, existing_summaries, code_file, events,
                   entryStore, generated, runs>>

\* Between two runs the user edits a source file.
EditFile(p, c) ==
    /\ Idle
    /\ files[p] # c
    /\ files' = [files EXCEPT ![p] = c]
    /\ prevFail' = NoPrevFail
    /\ UNCHANGED <<store, pc, err, answer, always_check, pending, code_ext,
                   code_paths, idx, existing_summaries, code_file, events,
                   entryStore, generated, runs>>

Next ==
    \/ \E exts \in CodeExts, flag \in BOOLEAN : MainStart(exts, flag)
    \/ \E yn \in Answers : check_cost(yn)
    \/ MainLoop
    \/ get_summaries_enter
    \/ get_summaries_loop
    \/ \E out \in LLMOutputs : summarise(out)
    \/ summarise_fails
    \/ write_summary
    \/ get_summaries_return
    \/ Exit
    \/ \E p \in Paths, c \in Contents : EditFile(p, c)

Spec == Init /\ [][Next]_vars

\* ------------------------------------------------------------ properties
InCall == pc \in {"loop", "llm", "write", "returned"}
Range(seq) == {seq[i] : i \in DOMAIN seq}
Yes == { <<"Y">>, <<"y">> }
Answered == answer # <<"?">>

\* The rows the call in progress has added to the store.
NewRows == SubSeq(store.rows, Len(entryStore.rows) + 1, Len(store.rows))

\* The store, as it was at the start of the call, holds for p the hash of
\* p's current bytes.
StoredUnchanged(p) ==
    /\ CanRead(entryStore)
    /\ \E i \in DOMAIN entryStore.rows :
          /\ entryStore.rows[i][1] = p
          /\ \A j \in DOMAIN entryStore.rows :
                j > i => entryStore.rows[j][1] # p
          /\ entryStore.rows[i][3] = Sha256(files[p])

\* C1: in get_summaries a file whose stored contents_hash (in the store as
\* loaded at the start of the call) equals the hash of its current bytes is
\* skipped: no LLM call is made for it and no row is written for it.
C1_UnchangedFileSkipped ==
    InCall =>
        \A p \in Range(code_paths) :
            StoredUnchanged(p) =>
                /\ p \notin EventPaths(CallEvents, "llm")
                /\ p \notin EventPaths(CallEvents, "write")
                /\ p \notin RowPaths(NewRows)
                /\ ~(pc \in {"llm", "write"} /\ code_file.path = p)

C1_Witness ==
    /\ pc = "returned"
    /\ \E p \in Range(code_paths) :
          /\ StoredUnchanged(p)
          /\ p \in EventPaths(CallEvents, "skip")
    /\ EventPaths(CallEvents, "write") # {}

\* C2: when get_summaries has returned normally, reading the store maps
\* every path of code_paths to a FileSummary with the hash of the path's
\* bytes and the summary most recently generated for the path.
C2_StoreReturnsLatestSummary ==
    pc = "returned" =>
        \A p \in Range(code_paths) :
            /\ CanRead(store)
            /\ p \in DOMAIN read_code_summary_csv(store)
            /\ read_code_summary_csv(store)[p].contents_hash = Sha256(files[p])
            /\ read_code_summary_csv(store)[p].summary = generated[p]

\* What does hold of the store read back: the hash is that of the path's
\* bytes and the summary is the latest one with its "\r\n" and "\r" read
\* as "\n".
StoreReturnsLatestSummaryUpToNewlines ==
    pc = "returned" =>
        \A p \in Range(code_paths) :
            /\ CanRead(store)
            /\ p \in DOMAIN read_code_summary_csv(store)
            /\ read_code_summary_csv(store)[p].contents_hash = Sha256(files[p])
            /\ read_code_summary_csv(store)[p].summary
                  = TranslateNewlines(generated[p])

\* C3: every safe_write_code_summary_csv call that returns adds exactly one
\* data row to the store, whether or not the store existed before.
C3_OneRowPerWrite ==
    [][pc = "write" /\ pc' = "loop" =>
          Len(store'.rows) = Len(store.rows) + 1]_vars

\* C4: the store holds at most one data row for each path.
C4_OneRowPerPath ==
    \A i, j \in DOMAIN store.rows :
        store.rows[i][1] = store.rows[j][1] => i = j

\* C5 as stated: within a run no write to the store precedes an LLM
\* summarisation call, and the store is not loaded after a summarisation.
C5_WrittenOnlyAtEnd ==
    \A i, j \in DOMAIN events :
        i < j =>
            /\ ~(events[i].t = "write" /\ events[j].t = "llm")
            /\ ~(events[i].t = "llm" /\ events[j].t = "load")

\* C5 as amended: the store is loaded only on entry to get_summaries, before
\* any file of that call is summarised, and each store write comes right
\* after the LLM summarisation call of the file it writes, one write per
\* summarised file.
C5_LoadOnEntryWriteAfterEachSummary ==
    \A i \in DOMAIN events :
        /\ events[i].t = "load" => i > 1 /\ events[i - 1].t = "call"
        /\ events[i].t = "write" =>
              i > 1 /\ events[i - 1] = Ev("llm", events[i].p)
        /\ events[i].t = "llm" /\ i < Len(events) =>
              events[i + 1] = Ev("write", events[i].p)

C5_Witness ==
    \E i, j \in DOMAIN events :
        /\ i < j
        /\ events[i].t = "write"
        /\ events[j].t = "llm"
        /\ \A k \in i..j : events[k].t # "call"

\* C6: with the store missing and always_check_existing_summaries set,
\* get_summaries raises FileNotFoundError with no LLM call and leaves the
\* store missing; with the flag not set every file of code_paths is
\* summarised, none is skipped.
C6_MissingStore ==
    /\ err = "FileNotFoundError" =>
          /\ pc = "error"
          /\ always_check
          /\ ~store.exists
          /\ CallEvents = <<>>
    /\ InCall /\ ~entryStore.exists => ~always_check
    /\ pc = "returned" /\ ~entryStore.exists =>
          /\ [i \in DOMAIN code_paths |-> Ev("llm", code_paths[i])]
                = SelectSeq(CallEvents, LAMBDA e : e.t = "llm")
          /\ EventPaths(CallEvents, "skip") = {}

C6_Witness ==
    /\ err = "FileNotFoundError"
    /\ code_paths # <<>>
    /\ ~store.exists

C8_HeaderChecked ==
    [][pc = "write" /\ store.exists /\ store.header # <<>> =>
          IF store.header # <<"path", "summary", "contents_hash">>
          THEN /\ pc' = "error" /\ err' = "ValueError"
               /\ store' = store
          ELSE /\ pc' # "error"
               /\ store'.header = store.header
               /\ store'.rows = Append(store.rows, Row(code_file))]_vars

C8_Witness ==
    /\ err = "ValueError"
    /\ store = OldShape
    /\ EventPaths(CallEvents, "llm") # {}

\* The paths of prevFail before its failing position, and from it on.
Earlier == {prevFail.paths[i] : i \in 1..(prevFail.k - 1)}
FromFailure == {prevFail.paths[i] : i \in prevFail.k..Len(prevFail.paths)}
Resumed == pc = "returned" /\ prevFail.valid /\ prevFail.paths = code_paths

\* When get_summaries dies at a file, the files it summarised before are in
\* the store with the hash of their current bytes.
ProgressStored ==
    pc = "error" /\ err \in {"LLMError", "ValueError"} /\ prevFail.valid =>
        \A p \in prevFail.done :
            /\ CanRead(store)
            /\ \E i \in DOMAIN store.rows :
                  /\ store.rows[i][1] = p
                  /\ \A j \in DOMAIN store.rows : j > i => store.rows[j][1] # p
                  /\ store.rows[i][3] = Sha256(files[p])

\* C9 as stated: after a call died at its k-th file, the earlier files it
\* summarised are in the store, and a later run over the same unchanged
\* files skips exactly the earlier files and summarises only the k-th and
\* later ones.
C9_ResumeSkipsExactlyEarlier ==
    /\ ProgressStored
    /\ Resumed =>
          /\ EventPaths(CallEvents, "skip") = Earlier
          /\ EventPaths(CallEvents, "llm") \subseteq FromFailure

\* C9 as amended: the later run skips all the earlier files (and any later
\* file whose stored hash still matches) and summarises only files from the
\* k-th on.
C9_ResumeSkipsEarlier ==
    /\ ProgressStored
    /\ Resumed =>
          /\ Earlier \subseteq EventPaths(CallEvents, "skip")
          /\ EventPaths(CallEvents, "llm") \subseteq FromFailure

C9_Witness ==
    /\ Resumed
    /\ prevFail.done # {}
    /\ EventPaths(CallEvents, "llm") # {}

====
